---- MODULE Spec2Model ----
(* A model of pkg/dumper/query/dumper.go: the text dumper that drains one   *)
(* row channel per table and writes SQL insert statements to a shared sink. *)
EXTENDS Integers, Sequences, FiniteSets, TLC

\* ------------------------------------------------------------------ bounds

\* The reader's ReadTable sends at most MaxRows rows on one row channel.
MaxRows == 2

\* The sink rejects at most MaxWriteFails writes of the workers.
MaxWriteFails == 1

\* The tables of the database, in the order GetTables lists them; GetTables
\* returns the first n of them.
AllTables == <<"users", "logs">>
TableNames == {AllTables[k] : k \in DOMAIN AllTables}

\* ------------------------------------------------------------------ values

\* A column value (interface{}) is a tuple whose head is its dynamic type:
\*   <<"int64", n>>  <<"float64", f>>  <<"bool", b>>  <<"string", s>>
\*   <<"bytes", s>>  <<"time", s>>     <<"nil">>
\*   <<"ptr", v>>    a non-nil *interface{} pointing at v
\*   <<"nilptr">>    a nil *interface{} (typed nil pointer)
\*   <<"other">>     any other dynamic type
Kind(src) == src[1]

\* strconv.FormatInt(value, 10) for one decimal digit.
Digit(d) == CASE d = 0 -> "0" [] d = 1 -> "1" [] d = 2 -> "2" [] d = 3 -> "3"
              [] d = 4 -> "4" [] d = 5 -> "5" [] d = 6 -> "6" [] d = 7 -> "7"
              [] d = 8 -> "8" [] OTHER -> "9"

RECURSIVE FormatNat(_)
FormatNat(n) == IF n < 10 THEN Digit(n) ELSE FormatNat(n \div 10) \o Digit(n % 10)

\* strconv.FormatInt(value, 10)
FormatInt(n) == IF n < 0 THEN "-" \o FormatNat(0 - n) ELSE FormatNat(n)

\* strconv.FormatBool(value)
FormatBool(b) == IF b THEN "true" ELSE "false"

\* The outcome of toSQLStringValue: the returned string and error, or a
\* run-time panic (panic = TRUE: the call never returns).
Ret(s, e) == [str |-> s, err |-> e, panic |-> FALSE]
Panic == [str |-> "", err |-> FALSE, panic |-> TRUE]

\* toSQLStringValue: the type switch. A float64 and a time.Time carry their
\* %v / String() rendering; []byte carries the text string(value) gives.
\* In the *interface{} case src is still the interface value, so src == nil
\* is false for a typed nil pointer and the dereference panics.
RECURSIVE toSQLStringValue(_)
toSQLStringValue(src) ==
    CASE Kind(src) = "int64" -> Ret(FormatInt(src[2]), FALSE)
      [] Kind(src) = "float64" -> Ret(src[2], FALSE)
      [] Kind(src) = "bool" -> Ret(FormatBool(src[2]), FALSE)
      [] Kind(src) = "string" -> Ret(src[2], FALSE)
      [] Kind(src) = "bytes" -> Ret(src[2], FALSE)
      [] Kind(src) = "time" -> Ret(src[2], FALSE)
      [] Kind(src) = "nil" -> Ret("NULL", FALSE)
      [] Kind(src) = "ptr" -> toSQLStringValue(src[2])
      [] Kind(src) = "nilptr" -> Panic
      [] OTHER -> Ret("", TRUE)

\* The iteration orders range may take over a row's columns.
Orders(row) ==
    {o \in [1..Cardinality(DOMAIN row) -> DOMAIN row] :
        \A c \in DOMAIN row : \E k \in DOMAIN o : o[k] = c}

\* toSQLColumnMap, iterating the row in the order o: the columns coerced so
\* far are in the map when a coercion fails (or panics).
RECURSIVE ColumnMapFrom(_, _, _, _)
ColumnMapFrom(row, o, k, sqlColumnMap) ==
    IF k > Len(o) THEN [map |-> sqlColumnMap, err |-> FALSE, panic |-> FALSE]
    ELSE LET r == toSQLStringValue(row[o[k]])
         IN  IF r.panic THEN [map |-> sqlColumnMap, err |-> FALSE, panic |-> TRUE]
             ELSE IF r.err THEN [map |-> sqlColumnMap, err |-> TRUE, panic |-> FALSE]
             ELSE ColumnMapFrom(row, o, k + 1,
                      [c \in DOMAIN sqlColumnMap \cup {o[k]} |->
                          IF c = o[k] THEN r.str ELSE sqlColumnMap[c]])

EmptyMap == [c \in {} |-> ""]

toSQLColumnMap(row, o) == ColumnMapFrom(row, o, 1, EmptyMap)

\* ------------------------------------------------------------------ inputs

\* The rows (database.Row: column name -> value) a reader may send as the
\* k-th row of a table: one whose cells are all of supported types, one with
\* a cell of an unsupported type, one with a nil *interface{} cell.
GoodRow(k) ==
    [id |-> <<"int64", k>>,
     name |-> IF k % 2 = 1 THEN <<"string", "Ann">>
              ELSE <<"ptr", <<"string", "Bo">>>>]
BadRow(k) == [id |-> <<"int64", k>>, name |-> <<"other">>]
NilPtrRow(k) == [id |-> <<"int64", k>>, name |-> <<"nilptr">>]

RowsAt(k) == {GoodRow(k), BadRow(k), NilPtrRow(k)}

RowSet == UNION {RowsAt(k) : k \in 1..MaxRows}

\* A row every cell of which toSQLStringValue coerces.
Coercible(row) ==
    \A c \in DOMAIN row :
        ~toSQLStringValue(row[c]).err /\ ~toSQLStringValue(row[c]).panic

\* A row with a cell toSQLStringValue returns an error for.
FailsOn(row) == \E c \in DOMAIN row : toSQLStringValue(row[c]).err

\* The result of FindByName when the table has no entry (a nil *config.Table).
NoTable == [found |-> FALSE, IgnoreData |-> FALSE, Filter |-> ""]

\* config.Tables: per table name, whether an entry exists, its IgnoreData and
\* its filter settings: no entry, an entry that filters the table's rows,
\* an entry that ignores its data.
TableConfigs ==
    {NoTable,
     [found |-> TRUE, IgnoreData |-> FALSE, Filter |-> "id > 10"],
     [found |-> TRUE, IgnoreData |-> TRUE, Filter |-> ""]}

\* ------------------------------------------------------------------ state

VARIABLES
    cfgTables,  \* Dump's cfgTables argument
    pc,         \* where Dump is
    tables,     \* the result of GetTables
    i,          \* index of the range loop over tables
    result,     \* what Dump returned
    rowChan,    \* per table: "none", "open" or "closed"
    opts,       \* per table: <<>>, or <<the ReadTableOpt passed to ReadTable>>
    wpc,        \* per table: where the worker goroutine is
    wrow,       \* per table: the row the worker holds (<<>> or <<row>>)
    rpc,        \* per table: where the reader's ReadTable call is
    readErr,    \* per table: whether the last ReadTable call was for this
                \* table and returned an error (the err Dump logs)
    delivered,  \* per table: the rows the reader sent on rowChan
    output,     \* the sink: the successful writes, in order
    attempts,   \* per table: [insert, newline] writes issued by the worker
    failed,     \* per table: whether a write of the worker was rejected
    rejected,   \* number of writes of the workers the sink has rejected
    sent,       \* per table: completion signals sent on done (the done
                \* channel is unbuffered: a send completes when the caller
                \* receives it)
    exited,     \* "no", or how the process ended: "fatal" (os.Exit) or "panic"
    call        \* op: the method called on the dumper; for Dump, receive:
                \* when the caller receives from done ("any time" or only
                \* "after Dump" has returned); for Close, toSQLStringValue
                \* and toSQLColumnMap called on their own, their arguments
                \* and what they returned

vars == <<cfgTables, pc, tables, i, result, rowChan, opts, wpc, wrow,
          rpc, readErr, delivered, output, attempts, failed, rejected, sent,
          exited, call>>

dumpVars == <<pc, tables, i, result>>
workerVars == <<wpc, wrow, attempts, failed, rejected>>
readerVars == <<rpc, readErr, delivered>>
doneVars == <<sent>>
inputVars == <<cfgTables, call>>

\* cfgTables.FindByName(tbl)
FindByName(cfg, tbl) == cfg[tbl]

\* A lookup that ignores the IgnoreData flag.
IgnoreDataNever(tableConfig) == FALSE

\* A lookup that also skips a table without an entry.
IgnoreDataOrMissing(tableConfig) == ~tableConfig.found \/ tableConfig.IgnoreData

\* `tableConfig != nil` and `tableConfig.IgnoreData`: the table is skipped.
IgnoreData(tableConfig) == tableConfig.found /\ tableConfig.IgnoreData

\* `var opts reader.ReadTableOpt`: the zero value.
ZeroReadTableOpt == [Filter |-> ""]

\* reader.NewReadTableOpt(tableConfig): options built from the entry.
NewReadTableOpt(tableConfig) == [Filter |-> tableConfig.Filter]

\* The options the loop ends up with: the zero value unless an entry exists.
ReadTableOpt(tableConfig) ==
    IF tableConfig.found THEN NewReadTableOpt(tableConfig) ELSE ZeroReadTableOpt

\* The text sq.DebugSqlizer(sq.Insert(tableName).SetMap(columnMap)) renders.
InsertText(tableName, columnMap) ==
    [kind |-> "insert", table |-> tableName, cols |-> columnMap]

\* The structure text; the newline a worker writes (table records the writer).
StructureText == [kind |-> "structure", table |-> "", cols |-> EmptyMap]
NewlineText(tableName) == [kind |-> "newline", table |-> tableName, cols |-> EmptyMap]

\* Dump has not been called.
Idle ==
    /\ pc = "GetTables"
    /\ tables = <<>>
    /\ i = 1
    /\ result = "none"
    /\ rowChan = [t \in TableNames |-> "none"]
    /\ opts = [t \in TableNames |-> <<>>]
    /\ wpc = [t \in TableNames |-> "none"]
    /\ wrow = [t \in TableNames |-> <<>>]
    /\ rpc = [t \in TableNames |-> "none"]
    /\ readErr = [t \in TableNames |-> FALSE]
    /\ delivered = [t \in TableNames |-> <<>>]
    /\ output = <<>>
    /\ attempts = [t \in TableNames |-> [insert |-> 0, newline |-> 0]]
    /\ failed = [t \in TableNames |-> FALSE]
    /\ rejected = 0
    /\ sent = [t \in TableNames |-> 0]
    /\ exited = "no"

Init ==
    /\ cfgTables \in [TableNames -> TableConfigs]
    /\ call = [op |-> "Dump", receive |-> "any time"]
    /\ Idle

Running == exited = "no"

\* ------------------------------------------------------------------ Dump

\* d.reader.GetTables() and its error return.
DumpGetTables ==
    /\ Running /\ pc = "GetTables"
    /\ \/ /\ \E n \in 0..Len(AllTables) : tables' = SubSeq(AllTables, 1, n)
          /\ pc' = "GetStructure"
          /\ UNCHANGED result
       \/ /\ pc' = "Returned"
          /\ result' = "failed to get tables"
          /\ UNCHANGED tables
    /\ UNCHANGED <<i, rowChan, opts, output, exited>>
    /\ UNCHANGED <<workerVars, readerVars, doneVars, inputVars>>

\* GetStructure whose error is recorded but does not end Dump.
DumpGetStructureGoesOn ==
    /\ Running /\ pc = "GetStructure"
    /\ \/ /\ pc' = "WriteStructure"
          /\ UNCHANGED result
       \/ /\ pc' = "WriteStructure"
          /\ result' = "could not get database structure"
    /\ UNCHANGED <<tables, i, rowChan, opts, output, exited>>
    /\ UNCHANGED <<workerVars, readerVars, doneVars, inputVars>>

\* d.reader.GetStructure() and its error return.
DumpGetStructure ==
    /\ Running /\ pc = "GetStructure"
    /\ \/ /\ pc' = "WriteStructure"
          /\ UNCHANGED result
       \/ /\ pc' = "Returned"
          /\ result' = "could not get database structure"
    /\ UNCHANGED <<tables, i, rowChan, opts, output, exited>>
    /\ UNCHANGED <<workerVars, readerVars, doneVars, inputVars>>

\* A structure write whose error is dropped: the loop starts either way.
DumpWriteStructureIgnoresError ==
    /\ Running /\ pc = "WriteStructure"
    /\ \/ output' = Append(output, StructureText)
       \/ UNCHANGED output
    /\ pc' = "Loop"
    /\ UNCHANGED <<tables, i, result, rowChan, opts, exited>>
    /\ UNCHANGED <<workerVars, readerVars, doneVars, inputVars>>

\* io.WriteString(d.output, structure) and its error return; a rejected
\* write leaves nothing in the sink.
DumpWriteStructure ==
    /\ Running /\ pc = "WriteStructure"
    /\ \/ /\ output' = Append(output, StructureText)
          /\ pc' = "Loop"
          /\ UNCHANGED result
       \/ /\ pc' = "Returned"
          /\ result' = "could not write structure to output"
          /\ UNCHANGED output
    /\ UNCHANGED <<tables, i, rowChan, opts, exited>>
    /\ UNCHANGED <<workerVars, readerVars, doneVars, inputVars>>

\* One iteration of the range loop up to the call of ReadTable: the
\* configuration lookup, the continue of an ignored table, make(chan) and
\* the go statement; after the last table, return nil.
DumpLoop ==
    /\ Running /\ pc = "Loop"
    /\ IF i > Len(tables)
       THEN /\ pc' = "Returned"
            /\ result' = "nil"
            /\ UNCHANGED <<i, rowChan, opts, wpc>>
       ELSE LET tbl == tables[i]
                tableConfig == FindByName(cfgTables, tbl)
            IN  IF IgnoreData(tableConfig)
                THEN /\ i' = i + 1
                     /\ UNCHANGED <<pc, result, rowChan, opts, wpc>>
                ELSE /\ opts' = [opts EXCEPT ![tbl] = <<ReadTableOpt(tableConfig)>>]
                     /\ rowChan' = [rowChan EXCEPT ![tbl] = "open"]
                     /\ wpc' = [wpc EXCEPT ![tbl] = "recv"]
                     /\ pc' = "ReadTable"
                     /\ UNCHANGED <<i, result>>
    /\ UNCHANGED <<tables, output, exited, wrow, attempts, failed, rejected>>
    /\ UNCHANGED <<readerVars, doneVars, inputVars>>

\* ReadTable started in a goroutine of its own: the loop does not wait for it.
DumpReadTableAsync ==
    /\ Running /\ pc = "ReadTable"
    /\ rpc[tables[i]] = "none"
    /\ rpc' = [rpc EXCEPT ![tables[i]] = "running"]
    /\ pc' = "Loop"
    /\ i' = i + 1
    /\ UNCHANGED <<tables, result, rowChan, opts, output, exited, readErr, delivered>>
    /\ UNCHANGED <<workerVars, doneVars, inputVars>>

\* d.reader.ReadTable(tbl, rowChan, opts) is called: Dump blocks in it.
DumpReadTable ==
    /\ Running /\ pc = "ReadTable"
    /\ rpc[tables[i]] = "none"
    /\ rpc' = [rpc EXCEPT ![tables[i]] = "running"]
    /\ UNCHANGED <<dumpVars, rowChan, opts, output, exited, readErr, delivered>>
    /\ UNCHANGED <<workerVars, doneVars, inputVars>>

\* A loop that returns the error of ReadTable.
AfterReadTableAbort(err) ==
    IF err THEN [pc |-> "Returned", result |-> "error while reading table"]
    ELSE [pc |-> "Loop", result |-> "none"]

\* What Dump does when ReadTable has returned err: the error is logged, and
\* the loop goes on to the next table either way.
AfterReadTable(err) == [pc |-> "Loop", result |-> "none"]

\* ------------------------------------------------------------------ reader

\* ReadTable sends a row: the channel is unbuffered, so the send completes
\* together with the worker's receive at `row, more := <-rowChan`. The k-th
\* row of a table has id k.
ReaderSend(t, row) ==
    /\ Running /\ rpc[t] = "running" /\ wpc[t] = "recv"
    /\ Len(delivered[t]) < MaxRows
    /\ row \in RowsAt(Len(delivered[t]) + 1)
    /\ delivered' = [delivered EXCEPT ![t] = Append(@, row)]
    /\ wrow' = [wrow EXCEPT ![t] = <<row>>]
    /\ wpc' = [wpc EXCEPT ![t] = "row"]
    /\ UNCHANGED <<dumpVars, rowChan, opts, output, exited, rpc, readErr>>
    /\ UNCHANGED <<attempts, failed, rejected, doneVars, inputVars>>

\* ReadTable closes the row channel and returns nil or an error to Dump,
\* which goes on as AfterReadTable says.
ReaderReturn(t, err) ==
    /\ Running /\ rpc[t] = "running"
    /\ rowChan' = [rowChan EXCEPT ![t] = "closed"]
    /\ rpc' = [rpc EXCEPT ![t] = "returned"]
    /\ readErr' = [x \in TableNames |-> x = t /\ err]
    /\ pc' = AfterReadTable(err).pc
    /\ result' = AfterReadTable(err).result
    /\ i' = i + 1
    /\ UNCHANGED <<tables, opts, output, exited, delivered>>
    /\ UNCHANGED <<workerVars, doneVars, inputVars>>

\* ------------------------------------------------------------------ worker

\* Whether the sink may accept (ok) or reject this write.
SinkMay(ok) == ok \/ rejected < MaxWriteFails

\* A goroutine that reads the loop variable tbl instead of its parameter.
TableNameCaptured(t) == tables[IF i > Len(tables) THEN Len(tables) ELSE i]

\* The tableName parameter of the goroutine spawned for table t: `}(tbl)`.
TableNameParam(t) == t

\* `if !more` read the wrong way round: the worker stays at its receive on
\* the closed channel.
WorkerClosedIgnored(t) ==
    /\ Running /\ wpc[t] = "recv" /\ rowChan[t] = "closed"
    /\ UNCHANGED vars

\* `row, more := <-rowChan` on the closed channel: more is false.
WorkerClosed(t) ==
    /\ Running /\ wpc[t] = "recv" /\ rowChan[t] = "closed"
    /\ wpc' = [wpc EXCEPT ![t] = "done"]
    /\ UNCHANGED <<dumpVars, rowChan, opts, output, exited, wrow, attempts, failed, rejected>>
    /\ UNCHANGED <<readerVars, doneVars, inputVars>>

\* A worker that receives the next row right after the insert statement,
\* without writing the newline first.
WorkerInsertThenReceive(t, ok) ==
    /\ Running /\ wpc[t] = "row"
    /\ SinkMay(ok)
    /\ \E o \in Orders(wrow[t][1]) :
         LET m == toSQLColumnMap(wrow[t][1], o)
         IN  IF m.panic
             THEN /\ exited' = "panic"
                  /\ UNCHANGED <<wpc, output, attempts, failed, rejected>>
             ELSE IF m.err
             THEN /\ exited' = "fatal"
                  /\ UNCHANGED <<wpc, output, attempts, failed, rejected>>
             ELSE /\ attempts' = [attempts EXCEPT ![t].insert = @ + 1]
                  /\ output' = IF ok THEN Append(output, InsertText(TableNameParam(t), m.map))
                               ELSE output
                  /\ failed' = [failed EXCEPT ![t] = @ \/ ~ok]
                  /\ rejected' = IF ok THEN rejected ELSE rejected + 1
                  /\ wpc' = [wpc EXCEPT ![t] = "recv"]
                  /\ UNCHANGED exited
    /\ UNCHANGED <<dumpVars, rowChan, opts, wrow>>
    /\ UNCHANGED <<readerVars, doneVars, inputVars>>

\* A worker that logs the error of toSQLColumnMap, skips the row and goes
\* on with the next one.
WorkerInsertSkipsRow(t, ok) ==
    /\ Running /\ wpc[t] = "row"
    /\ SinkMay(ok)
    /\ \E o \in Orders(wrow[t][1]) :
         LET m == toSQLColumnMap(wrow[t][1], o)
         IN  IF m.panic
             THEN /\ exited' = "panic"
                  /\ UNCHANGED <<wpc, output, attempts, failed, rejected>>
             ELSE IF m.err
             THEN /\ ok
                  /\ wpc' = [wpc EXCEPT ![t] = "recv"]
                  /\ UNCHANGED <<exited, output, attempts, failed, rejected>>
             ELSE /\ attempts' = [attempts EXCEPT ![t].insert = @ + 1]
                  /\ output' = IF ok THEN Append(output, InsertText(TableNameParam(t), m.map))
                               ELSE output
                  /\ failed' = [failed EXCEPT ![t] = @ \/ ~ok]
                  /\ rejected' = IF ok THEN rejected ELSE rejected + 1
                  /\ wpc' = [wpc EXCEPT ![t] = "newline"]
                  /\ UNCHANGED exited
    /\ UNCHANGED <<dumpVars, rowChan, opts, wrow>>
    /\ UNCHANGED <<readerVars, doneVars, inputVars>>

\* toSQLColumnMap(row), Fatal (os.Exit) on its error, else the write of the
\* insert statement, which the sink accepts (ok) or rejects.
WorkerInsert(t, ok) ==
    /\ Running /\ wpc[t] = "row"
    /\ SinkMay(ok)
    /\ \E o \in Orders(wrow[t][1]) :
         LET m == toSQLColumnMap(wrow[t][1], o)
         IN  IF m.panic
             THEN /\ exited' = "panic"
                  /\ UNCHANGED <<wpc, output, attempts, failed, rejected>>
             ELSE IF m.err
             THEN /\ exited' = "fatal"
                  /\ UNCHANGED <<wpc, output, attempts, failed, rejected>>
             ELSE /\ attempts' = [attempts EXCEPT ![t].insert = @ + 1]
                  /\ output' = IF ok THEN Append(output, InsertText(TableNameParam(t), m.map))
                               ELSE output
                  /\ failed' = [failed EXCEPT ![t] = @ \/ ~ok]
                  /\ rejected' = IF ok THEN rejected ELSE rejected + 1
                  /\ wpc' = [wpc EXCEPT ![t] = "newline"]
                  /\ UNCHANGED exited
    /\ UNCHANGED <<dumpVars, rowChan, opts, wrow>>
    /\ UNCHANGED <<readerVars, doneVars, inputVars>>

\* A worker that returns when the write of the newline is rejected.
WorkerNewlineReturnsOnError(t, ok) ==
    /\ Running /\ wpc[t] = "newline"
    /\ SinkMay(ok)
    /\ attempts' = [attempts EXCEPT ![t].newline = @ + 1]
    /\ output' = IF ok THEN Append(output, NewlineText(t)) ELSE output
    /\ failed' = [failed EXCEPT ![t] = @ \/ ~ok]
    /\ rejected' = IF ok THEN rejected ELSE rejected + 1
    /\ wpc' = [wpc EXCEPT ![t] = IF ok THEN "recv" ELSE "returned"]
    /\ wrow' = [wrow EXCEPT ![t] = <<>>]
    /\ UNCHANGED <<dumpVars, rowChan, opts, exited>>
    /\ UNCHANGED <<readerVars, doneVars, inputVars>>

\* io.WriteString(d.output, "\n"), accepted or rejected; then the next
\* iteration of the for loop.
WorkerNewline(t, ok) ==
    /\ Running /\ wpc[t] = "newline"
    /\ SinkMay(ok)
    /\ attempts' = [attempts EXCEPT ![t].newline = @ + 1]
    /\ output' = IF ok THEN Append(output, NewlineText(t)) ELSE output
    /\ failed' = [failed EXCEPT ![t] = @ \/ ~ok]
    /\ rejected' = IF ok THEN rejected ELSE rejected + 1
    /\ wpc' = [wpc EXCEPT ![t] = "recv"]
    /\ wrow' = [wrow EXCEPT ![t] = <<>>]
    /\ UNCHANGED <<dumpVars, rowChan, opts, exited>>
    /\ UNCHANGED <<readerVars, doneVars, inputVars>>

\* The caller of Dump is ready to receive from done.
CallerReceives == call.receive = "any time" \/ pc = "Returned"

\* A worker that sends its signal first and writes a closing newline after.
WorkerDoneThenNewline(t) ==
    /\ Running /\ wpc[t] = "done"
    /\ sent[t] < 1
    /\ sent' = [sent EXCEPT ![t] = @ + 1]
    /\ wpc' = [wpc EXCEPT ![t] = "newline"]
    /\ UNCHANGED <<dumpVars, rowChan, opts, output, exited, wrow, attempts, failed, rejected>>
    /\ UNCHANGED <<readerVars, inputVars>>

\* A worker that sends its signal and stays in the for loop.
WorkerDoneNoReturn(t) ==
    /\ Running /\ wpc[t] = "done"
    /\ sent[t] < 3
    /\ sent' = [sent EXCEPT ![t] = @ + 1]
    /\ wpc' = [wpc EXCEPT ![t] = "recv"]
    /\ UNCHANGED <<dumpVars, rowChan, opts, output, exited, wrow, attempts, failed, rejected>>
    /\ UNCHANGED <<readerVars, inputVars>>

\* `done <- struct{}{}` completes when the caller receives from done, and
\* the goroutine returns.
WorkerDone(t) ==
    /\ Running /\ wpc[t] = "done"
    /\ CallerReceives
    /\ sent' = [sent EXCEPT ![t] = @ + 1]
    /\ wpc' = [wpc EXCEPT ![t] = "returned"]
    /\ UNCHANGED <<dumpVars, rowChan, opts, output, exited, wrow, attempts, failed, rejected>>
    /\ UNCHANGED <<readerVars, inputVars>>

Next ==
    \/ DumpGetTables
    \/ DumpGetStructure
    \/ DumpWriteStructure
    \/ DumpLoop
    \/ DumpReadTable
    \/ \E t \in TableNames, row \in RowSet : ReaderSend(t, row)
    \/ \E t \in TableNames, err \in BOOLEAN : ReaderReturn(t, err)
    \/ \E t \in TableNames : WorkerClosed(t)
    \/ \E t \in TableNames, ok \in BOOLEAN : WorkerInsert(t, ok)
    \/ \E t \in TableNames, ok \in BOOLEAN : WorkerNewline(t, ok)
    \/ \E t \in TableNames : WorkerDone(t)

Spec == Init /\ [][Next]_vars

\* ------------------------------------------------------------ a fair run

\* The rows every cell of which is coercible.
LiveRows == {row \in RowSet : Coercible(row)}

\* The caller receives from done while Dump runs, or only after it returned.
InitLive ==
    /\ cfgTables \in [TableNames -> TableConfigs]
    /\ \E r \in {"any time", "after Dump"} : call = [op |-> "Dump", receive |-> r]
    /\ Idle

\* The steps of a run in which the reader sends coercible rows only.
NextLive ==
    \/ DumpGetTables
    \/ DumpGetStructure
    \/ DumpWriteStructure
    \/ DumpLoop
    \/ DumpReadTable
    \/ \E t \in TableNames, row \in LiveRows : ReaderSend(t, row)
    \/ \E t \in TableNames, err \in BOOLEAN : ReaderReturn(t, err)
    \/ \E t \in TableNames : WorkerClosed(t)
    \/ \E t \in TableNames, ok \in BOOLEAN : WorkerInsert(t, ok)
    \/ \E t \in TableNames, ok \in BOOLEAN : WorkerNewline(t, ok)
    \/ \E t \in TableNames : WorkerDone(t)

\* Every goroutine that can take a step is scheduled in the end: Dump, each
\* worker, each ReadTable call (which closes its stream and returns), and
\* the caller's receive from done.
Fairness ==
    /\ WF_vars(DumpGetTables \/ DumpGetStructure \/ DumpWriteStructure
                 \/ DumpLoop \/ DumpReadTable)
    /\ \A t \in TableNames :
          /\ WF_vars(\E err \in BOOLEAN : ReaderReturn(t, err))
          /\ WF_vars(WorkerClosed(t)
                       \/ (\E ok \in BOOLEAN : WorkerInsert(t, ok))
                       \/ (\E ok \in BOOLEAN : WorkerNewline(t, ok)))
          /\ WF_vars(WorkerDone(t))

SpecLive == InitLive /\ [][NextLive]_vars /\ Fairness

\* ------------------------------------------------------------------ claims

\* The tables GetTables listed, and those among them whose data is dumped.
Listed == {tables[k] : k \in DOMAIN tables}
Ignored(t) == cfgTables[t].found /\ cfgTables[t].IgnoreData
Included == {t \in Listed : ~Ignored(t)}

RECURSIVE SumSent(_)
SumSent(S) ==
    IF S = {} THEN 0
    ELSE LET t == CHOOSE x \in S : TRUE IN sent[t] + SumSent(S \ {t})

\* The completion signals sent on done so far.
TotalSent == SumSent(TableNames)

\* The insert statements of table t in the sink, in order.
InsertsOf(t) == SelectSeq(output, LAMBDA w : w.kind = "insert" /\ w.table = t)

\* The insert statements the rows delivered to table t's worker render to.
Expected(t) ==
    [k \in DOMAIN delivered[t] |->
        InsertText(t, toSQLColumnMap(delivered[t][k], <<"id", "name">>).map)]

IsPrefix(a, b) == Len(a) <= Len(b) /\ a = SubSeq(b, 1, Len(a))

C3_SiblingUnaffected ==
    exited = "fatal" =>
        \A t \in TableNames :
            (/\ rowChan[t] = "closed" /\ delivered[t] # <<>>
             /\ \A k \in DOMAIN delivered[t] : Coercible(delivered[t][k]))
                => (attempts[t].insert = Len(delivered[t]) /\ sent[t] = 1)

\* C4: an ignored table never gets a row channel, a worker, a ReadTable call
\* or read options, no insert statement of it is written and no completion
\* signal is sent for it; the signals sent never exceed the tables that are
\* not ignored.
C4_IgnoredUntouched ==
    /\ \A t \in TableNames :
          Ignored(t) =>
              /\ rowChan[t] = "none" /\ wpc[t] = "none" /\ rpc[t] = "none"
              /\ opts[t] = <<>> /\ delivered[t] = <<>>
              /\ InsertsOf(t) = <<>> /\ sent[t] = 0
    /\ TotalSent <= Cardinality(Included)

\* Dump has passed over an ignored table and dumped the table after it.
C4_Witness ==
    /\ pc = "Returned" /\ result = "nil"
    /\ Len(tables) = 2 /\ Ignored(tables[1])
    /\ sent[tables[2]] = 1 /\ Len(InsertsOf(tables[2])) = 2

\* C5: whenever a worker exists or anything of a row is in the sink, the
\* structure text is the first thing in the sink, and it is there once.
C5_PreambleFirst ==
    ((\E t \in TableNames : wpc[t] # "none") \/ output # <<>>) =>
        /\ output # <<>>
        /\ output[1] = StructureText
        /\ \A k \in DOMAIN output : k > 1 => output[k].kind # "structure"

\* An insert statement is in the sink, behind the structure text.
C5_Witness ==
    /\ Len(output) >= 2
    /\ output[1] = StructureText
    /\ output[2].kind = "insert"

\* C6: as long as no write of table t was rejected, the insert statements of
\* t in the sink are those of the rows delivered so far, one each and in the
\* order of delivery, all but perhaps the last; once the worker has seen the
\* end of the stream they are those of all the rows delivered.
C6_OneInsertPerRowInOrder ==
    \A t \in TableNames :
        ~failed[t] =>
            LET ins == InsertsOf(t)
                exp == Expected(t)
            IN  /\ IsPrefix(ins, exp)
                /\ Len(ins) >= Len(delivered[t]) - 1
                /\ wpc[t] \in {"newline", "recv", "done", "returned"}
                      => ins = exp

\* Both tables are fully dumped, two rows each, and an insert of the second
\* table lies between writes of the first.
C6_Witness ==
    /\ \A t \in TableNames :
          wpc[t] = "returned" /\ Len(delivered[t]) = 2 /\ ~failed[t]
    /\ \E j, k \in DOMAIN output :
          j < k /\ output[j].table = "logs" /\ output[k].table = "users"

\* C7 as stated: with no write rejected, whatever follows an insert statement
\* in the sink is the newline its own worker wrote.
C7_WholeLines ==
    rejected = 0 =>
        \A k \in DOMAIN output :
            (output[k].kind = "insert" /\ k < Len(output)) =>
                /\ output[k + 1].kind = "newline"
                /\ output[k + 1].table = output[k].table

\* C8: when Dump has an error to return it has returned, and no row channel,
\* worker or ReadTable call exists, no row was delivered, no write of a
\* worker was issued and no completion signal was sent; after a failed
\* GetTables or GetStructure the sink is empty.
C8_PreambleErrorsAbort ==
    result \notin {"none", "nil"} =>
        /\ pc = "Returned"
        /\ \A t \in TableNames :
              /\ rowChan[t] = "none" /\ wpc[t] = "none" /\ rpc[t] = "none"
              /\ delivered[t] = <<>> /\ sent[t] = 0
              /\ attempts[t].insert = 0 /\ attempts[t].newline = 0
        /\ \A k \in DOMAIN output : output[k].kind = "structure"
        /\ result \in {"failed to get tables", "could not get database structure"}
              => output = <<>>

\* Dump has returned the error of the structure write although tables were
\* listed.
C8_Witness ==
    /\ result = "could not write structure to output"
    /\ Len(tables) = 2 /\ Included = Listed

\* C9: a ReadTable error never ends the loop: while the error of the last
\* ReadTable call is the logged one, Dump is still in its loop or has
\* returned nil; and whenever Dump returns after the preamble it returns nil
\* with a worker spawned and ReadTable returned for every table that is not
\* ignored.
C9_ReadErrorsNotFatal ==
    /\ \A t \in TableNames :
          readErr[t] => /\ pc \in {"Loop", "ReadTable", "Returned"}
                        /\ result \in {"none", "nil"}
    /\ (pc = "Returned" /\ output # <<>>) =>
          /\ result = "nil"
          /\ \A t \in Included : wpc[t] # "none" /\ rpc[t] = "returned"

\* ReadTable failed for the first table, the second table is being read and
\* its worker holds a row.
C9_Witness ==
    /\ Len(tables) = 2
    /\ rpc[tables[1]] = "returned" /\ delivered[tables[1]] = <<>>
    /\ readErr[tables[1]]
    /\ rpc[tables[2]] = "running" /\ wpc[tables[2]] = "row"

\* C10: a worker some of whose writes were rejected goes on all the same:
\* whenever it is back at the receive or past it, both writes were issued for
\* every row delivered, and it ends only on the closed channel.
C10_WriteErrorsNotFatal ==
    \A t \in TableNames :
        failed[t] =>
            /\ wpc[t] \in {"recv", "done", "returned"} =>
                  /\ attempts[t].insert = Len(delivered[t])
                  /\ attempts[t].newline = Len(delivered[t])
            /\ wpc[t] = "newline" =>
                  /\ attempts[t].insert = Len(delivered[t])
                  /\ attempts[t].newline = Len(delivered[t]) - 1
            /\ wpc[t] \in {"done", "returned"} => rowChan[t] = "closed"
            /\ wpc[t] # "none"

\* The insert of the first of two rows was rejected, the one of the second
\* row is in the sink, and the worker has signalled.
C10_Witness ==
    \E t \in TableNames :
        /\ failed[t] /\ sent[t] = 1
        /\ Len(delivered[t]) = 2
        /\ InsertsOf(t) = <<Expected(t)[2]>>

\* The loop has got past the lookup of table t.
Started(t) ==
    \E k \in DOMAIN tables :
        tables[k] = t /\ (k < i \/ (k = i /\ pc = "ReadTable"))

\* The column maps of the insert statements of table t in the sink.
InsertCols(t) == LET ins == InsertsOf(t) IN [k \in DOMAIN ins |-> ins[k].cols]

\* What can be seen of the processing of table t, but for its read options.
Processing(t) == <<rowChan[t], wpc[t], InsertCols(t), sent[t]>>

\* Tables t1 without an entry and t2 with an entry that does not ignore its
\* data, whose readers behaved alike, whose workers are at the same place
\* and had no write rejected.
Alike(t1, t2) ==
    /\ ~cfgTables[t1].found
    /\ cfgTables[t2].found /\ ~cfgTables[t2].IgnoreData
    /\ wpc[t1] = wpc[t2] /\ rpc[t1] = rpc[t2]
    /\ ~failed[t1] /\ ~failed[t2]
    /\ delivered[t1] = delivered[t2] /\ attempts[t1] = attempts[t2]
    /\ Started(t1) /\ Started(t2)

\* Every table that is not ignored, with an entry or without, has its
\* stream and its worker once the loop has got past its lookup.
BothSpawned ==
    \A t \in TableNames :
        (Started(t) /\ ~Ignored(t)) =>
            rowChan[t] # "none" /\ wpc[t] # "none" /\ Len(opts[t]) = 1

\* C15 as stated: a table without an entry is processed like one with an
\* entry that does not ignore its data: stream, worker, the same read
\* options, the same insert statements and the same completion signal.
C15_ProcessedIdentically ==
    /\ BothSpawned
    /\ \A t1, t2 \in TableNames :
          Alike(t1, t2) =>
              Processing(t1) = Processing(t2) /\ opts[t1] = opts[t2]

\* C15: a table without an entry is processed like one with an entry that
\* does not ignore its data (stream, worker, the same insert statements and
\* the same completion signal), but for the read options: ReadTable gets the
\* zero value for the first and the options built from the entry for the
\* second.
C15_IdenticalButOptions ==
    /\ BothSpawned
    /\ \A t \in TableNames :
          opts[t] # <<>> =>
              opts[t][1] = (IF cfgTables[t].found
                               THEN NewReadTableOpt(cfgTables[t])
                               ELSE ZeroReadTableOpt)
    /\ \A t1, t2 \in TableNames :
          Alike(t1, t2) => Processing(t1) = Processing(t2)

\* A table without an entry and one with an entry have both been dumped to
\* the end, two rows each and the same rows, and their options differ.
C15_Witness ==
    \E t1, t2 \in TableNames :
        /\ Alike(t1, t2)
        /\ wpc[t1] = "returned" /\ Len(delivered[t1]) = MaxRows
        /\ Len(InsertsOf(t1)) = MaxRows /\ Len(InsertsOf(t2)) = MaxRows
        /\ opts[t1] # opts[t2]

\* C16: when the k-th row delivered to the worker of a table has a cell of an
\* unsupported type, it is the last row that worker ever receives and the
\* worker never gets past it: an insert was attempted for each of the k-1
\* earlier rows and for no other, so the sink holds no insert of the k-th or
\* of a later row, and, unless the sink rejected a write of the table, holds
\* exactly the inserts of the k-1 earlier rows.
C16_FailFast ==
    \A t \in TableNames : \A k \in DOMAIN delivered[t] :
        FailsOn(delivered[t][k]) =>
            LET ins == InsertsOf(t)
                exp == Expected(t)
            IN  /\ k = Len(delivered[t])
                /\ wpc[t] = "row" /\ wrow[t] = <<delivered[t][k]>>
                /\ attempts[t] = [insert |-> k - 1, newline |-> k - 1]
                /\ Len(ins) <= k - 1
                /\ \A j \in DOMAIN ins : \E m \in 1..(k - 1) : ins[j] = exp[m]
                /\ ~failed[t] => ins = SubSeq(exp, 1, k - 1)

\* The second row of a table was the bad one: the process has ended on it
\* and the sink holds the insert of the first row only.
C16_Witness ==
    \E t \in TableNames :
        /\ Len(delivered[t]) = 2 /\ FailsOn(delivered[t][2])
        /\ exited = "fatal"
        /\ Len(InsertsOf(t)) = 1

\* C17: a row is handed over only to a worker waiting at its receive, so
\* with k+1 rows handed over both writes of row k have been made: at every
\* moment at most one row of a table has been handed over without both its
\* writes made, that row is the last one, and the worker is holding it.
C17_Backpressure ==
    \A t \in TableNames :
        LET n == Len(delivered[t])
        IN  /\ n - attempts[t].insert \in {0, 1}
            /\ n - attempts[t].newline \in {0, 1}
            /\ attempts[t].newline <= attempts[t].insert
            /\ n > attempts[t].newline =>
                  wpc[t] \in {"row", "newline"} /\ wrow[t] = <<delivered[t][n]>>
            /\ wpc[t] \in {"recv", "done", "returned"} => attempts[t].newline = n
            /\ n > 0 => rowChan[t] # "none" /\ rpc[t] # "none"

\* The reader is still in ReadTable and has handed over the second row of a
\* table; the worker holds it, with both writes of the first row made.
C17_Witness ==
    \E t \in TableNames :
        /\ rpc[t] = "running" /\ Len(delivered[t]) = 2
        /\ wpc[t] = "row"
        /\ attempts[t] = [insert |-> 1, newline |-> 1]
        /\ exited = "no"

\* Dump has listed the tables and written the structure, and the signal of
\* every table that is not ignored has been sent and received.
AllSignalled ==
    /\ pc \in {"Loop", "ReadTable", "Returned"}
    /\ \A t \in Included : sent[t] = 1

\* C18: a worker has sent its signal only if its stream was closed and both
\* writes were made for every row delivered on it; and from a state where
\* the signals of all tables that are not ignored have been received, no
\* step writes to the sink or tries to.
C18_SignalMeansWritten ==
    /\ [](\A t \in TableNames :
            sent[t] > 0 =>
                /\ rpc[t] = "returned" /\ rowChan[t] = "closed"
                /\ attempts[t] = [insert |-> Len(delivered[t]),
                                  newline |-> Len(delivered[t])])
    /\ [][AllSignalled =>
            (output' = output /\ attempts' = attempts /\ rejected' = rejected)]_vars

\* Two tables have been dumped, rows of each are in the sink, both signals
\* have been received, and Dump has yet to finish its loop.
C18_Witness ==
    /\ AllSignalled /\ pc = "Loop"
    /\ Cardinality(Included) = 2
    /\ \A t \in Included : Len(InsertsOf(t)) = MaxRows

\* Dump has returned and no goroutine is left: every worker spawned has
\* returned, and so has every ReadTable call.
Terminated ==
    /\ pc = "Returned"
    /\ \A t \in TableNames :
          wpc[t] \in {"none", "returned"} /\ rpc[t] \in {"none", "returned"}

\* C19: when every ReadTable call closes its stream, every row is coercible
\* and the caller receives from done, during Dump or only after it, then in
\* a fair run Dump returns in the end and every worker spawned returns:
\* nothing stays blocked on a row stream or on done, and the process lives.
C19_NoDeadlockNoLeak == <>[](Terminated /\ exited = "no")

\* Dump has returned while the worker of the first table, its stream long
\* closed, is still blocked in its send on done, the caller receiving only
\* after Dump.
C19_Witness ==
    /\ call.receive = "after Dump"
    /\ pc = "Returned" /\ result = "nil"
    /\ Cardinality(Included) = 2
    /\ \A t \in Included : wpc[t] = "done" /\ Len(delivered[t]) = MaxRows

\* The tables whose ReadTable call has been made and has not returned.
Reading == {t \in TableNames : rpc[t] = "running"}

\* C20: at most one ReadTable call is in progress; ReadTable has been called
\* for a table only if the loop has reached it, the call of every table
\* listed before it that is not ignored has returned, and its row channel
\* and its worker exist.
C20_OneTableAtATime ==
    /\ Cardinality(Reading) <= 1
    /\ \A k \in DOMAIN tables :
          rpc[tables[k]] # "none" =>
              /\ k <= i
              /\ rpc[tables[k]] = "running" <=> (k = i /\ pc = "ReadTable")
              /\ rowChan[tables[k]] # "none" /\ wpc[tables[k]] # "none"
              /\ \A j \in 1..(k - 1) :
                    Ignored(tables[j]) \/ rpc[tables[j]] = "returned"
    /\ \A t \in TableNames : rpc[t] # "none" => t \in Listed

\* ReadTable of the second table is in progress, the one of the first has
\* returned, and the worker of the first table is still writing.
C20_Witness ==
    /\ Len(tables) = 2
    /\ rpc[tables[1]] = "returned" /\ rpc[tables[2]] = "running"
    /\ wpc[tables[1]] = "newline" /\ wpc[tables[2]] = "row"

\* ------------------------------------------------------------------ Close

\* How many times Close is called on one dumper.
MaxCloseCalls == 6

mainVars == <<cfgTables, dumpVars, rowChan, opts, output, exited, workerVars,
              readerVars, doneVars>>

\* A dumper on which only the calls under study are made.
NoDump ==
    /\ cfgTables = [t \in TableNames |-> NoTable]
    /\ Idle

\* closable: d.output is an io.WriteCloser; closes: the error of each
\* closer.Close() made so far; rets: what each call of Close returned.
InitClose ==
    /\ NoDump
    /\ \E closable \in BOOLEAN :
          call = [op |-> "Close", closable |-> closable, closes |-> <<>>,
                  rets |-> <<>>]

\* Close that reports success on an output that cannot be closed.
CloseSilent(err) ==
    /\ call.op = "Close" /\ Len(call.rets) < MaxCloseCalls
    /\ IF call.closable
          THEN call' = [call EXCEPT
                  !.closes = Append(@, err),
                  !.rets = Append(@, IF err THEN "failed to close output stream"
                                            ELSE "nil")]
          ELSE /\ ~err
               /\ call' = [call EXCEPT !.rets = Append(@, "nil")]
    /\ UNCHANGED mainVars

\* textDumper.Close; err: whether closer.Close() fails.
Close(err) ==
    /\ call.op = "Close" /\ Len(call.rets) < MaxCloseCalls
    /\ IF call.closable
          THEN call' = [call EXCEPT
                  !.closes = Append(@, err),
                  !.rets = Append(@, IF err THEN "failed to close output stream"
                                            ELSE "nil")]
          ELSE /\ ~err
               /\ call' = [call EXCEPT
                     !.rets = Append(@, "unable to close output: wrong closer type")]
    /\ UNCHANGED mainVars

NextClose == \E err \in BOOLEAN : Close(err)

SpecClose == InitClose /\ [][NextClose]_vars

\* C11: every call of Close returns an error exactly when the output is not
\* closable or its own close fails; on a closable output each call of Close
\* calls the output's close once, on any other output it calls no close.
C11_CloseErrors ==
    call.op = "Close" =>
        /\ Len(call.closes) = (IF call.closable THEN Len(call.rets) ELSE 0)
        /\ \A k \in DOMAIN call.rets :
              (call.rets[k] # "nil") <=> (~call.closable \/ call.closes[k])

\* Close has returned on a closable output both after a close that failed
\* and after one that succeeded.
C11_Witness ==
    /\ call.op = "Close" /\ call.closable
    /\ \E j, k \in DOMAIN call.rets :
          /\ call.closes[j] /\ call.rets[j] = "failed to close output stream"
          /\ ~call.closes[k] /\ call.rets[k] = "nil"

\* ------------------------------------------------------ toSQLStringValue

\* How deep *interface{} values are nested.
MaxDepth == 2

\* Values that are not pointers, a few of each dynamic type.
Leaves ==
    {<<"int64", n>> : n \in {0 - 12, 0, 7, 305}}
    \cup {<<"float64", f>> : f \in {"1.5", "-0.25"}}
    \cup {<<"bool", b>> : b \in BOOLEAN}
    \cup {<<"string", x>> : x \in {"", "Ann", "NULL"}}
    \cup {<<"bytes", x>> : x \in {"", "blob"}}
    \cup {<<"time", "2020-01-02 03:04:05 +0000 UTC">>}
    \cup {<<"nil">>, <<"nilptr">>, <<"other">>}

\* The values with at most d pointers around a leaf.
RECURSIVE Values(_)
Values(d) ==
    IF d = 0 THEN Leaves
    ELSE Values(d - 1) \cup {<<"ptr", v>> : v \in Values(d - 1)}

\* src: the argument; ret: empty until the call is over, then its outcome.
InitCoerce ==
    /\ NoDump
    /\ \E src \in Values(MaxDepth) :
          call = [op |-> "toSQLStringValue", src |-> src, ret |-> <<>>]

\* One call d.toSQLStringValue(src).
Coerce ==
    /\ call.op = "toSQLStringValue" /\ call.ret = <<>>
    /\ call' = [call EXCEPT !.ret = <<toSQLStringValue(call.src)>>]
    /\ UNCHANGED mainVars

NextCoerce == Coerce

SpecCoerce == InitCoerce /\ [][NextCoerce]_vars

Coerced == call.op = "toSQLStringValue" /\ call.ret # <<>>

\* C12: coercing a pointer to v gives what coercing v gives, at any depth,
\* and nil, a pointer to nil and a nil pointer each give "NULL" and no error.
C12_BoxedLikeContent ==
    Coerced =>
        /\ Kind(call.src) = "ptr" => call.ret[1] = toSQLStringValue(call.src[2])
        /\ call.src \in {<<"nil">>, <<"ptr", <<"nil">>>>, <<"nilptr">>}
              => call.ret[1] = Ret("NULL", FALSE)

\* The dynamic types the type switch has a case for, pointers to them, and
\* the nil pointer the *interface{} case tests for.
RECURSIVE Supported(_)
Supported(src) ==
    \/ Kind(src) \in {"int64", "float64", "bool", "string", "bytes", "time",
                      "nil", "nilptr"}
    \/ Kind(src) = "ptr" /\ Supported(src[2])

\* A supported value whose text is not empty.
RECURSIVE NonEmpty(_)
NonEmpty(src) ==
    /\ Supported(src)
    /\ Kind(src) \in {"string", "bytes"} => src[2] # ""
    /\ Kind(src) = "ptr" => NonEmpty(src[2])

\* C13: a call returns without error exactly for a supported value; for any
\* other value, also behind pointers, it returns an error and the empty
\* text; it never returns a text with an error, and never the empty text
\* without an error for a supported value that is not empty.
C13_SucceedsExactlyOnSupported ==
    Coerced =>
        LET r == call.ret[1]
        IN  /\ ~r.panic
            /\ r.err <=> ~Supported(call.src)
            /\ r.err => r.str = ""
            /\ (~r.err /\ NonEmpty(call.src)) => r.str # ""

\* -------------------------------------------------------- toSQLColumnMap

\* The rows given to toSQLColumnMap: any columns out of three, each cell an
\* integer, a string, nil, a value of an unsupported type or a nil pointer.
Columns == {"id", "name", "at"}
Cells == {<<"int64", 7>>, <<"string", "Ann">>, <<"nil">>, <<"other">>, <<"nilptr">>}
Rows == UNION {[cs -> Cells] : cs \in SUBSET Columns}

\* row: the argument; order: the order range visits its columns in; ret:
\* empty until the call is over, then its outcome.
InitRow ==
    /\ NoDump
    /\ \E row \in Rows : \E o \in Orders(row) :
          call = [op |-> "toSQLColumnMap", row |-> row, order |-> o, ret |-> <<>>]

\* One call d.toSQLColumnMap(row).
SerializeRow ==
    /\ call.op = "toSQLColumnMap" /\ call.ret = <<>>
    /\ call' = [call EXCEPT !.ret = <<toSQLColumnMap(call.row, call.order)>>]
    /\ UNCHANGED mainVars

NextRow == SerializeRow

SpecRow == InitRow /\ [][NextRow]_vars

\* C14: when the coercion of a cell of the row fails, toSQLColumnMap returns
\* the error and a map with none of the row's columns; when every cell is
\* coercible it returns no error and a map whose keys are the row's columns.
C14_WholeRowsOnly ==
    (call.op = "toSQLColumnMap" /\ call.ret # <<>>) =>
        LET r == call.ret[1]
        IN  /\ FailsOn(call.row) => (r.err /\ DOMAIN r.map \cap DOMAIN call.row = {})
            /\ Coercible(call.row) =>
                  (~r.err /\ ~r.panic /\ DOMAIN r.map = DOMAIN call.row)

====
